---- MODULE Spec2Model ----
(***************************************************************************)
(* A model of the rust8 CHIP-8 interpreter: the machine state of Cpu and   *)
(* Ram, one fetch-decode-execute cycle (Cpu::run_instruction) and the run  *)
(* loop of main.  The repository holds two copies of the interpreter, the  *)
(* one in src/cpu.rs and the one inlined in src/main.rs; the variable      *)
(* build says which of them runs.                                          *)
(***************************************************************************)
EXTENDS Integers, Sequences, FiniteSets, TLC

\* ---------------------------------------------------------------- constants
NUM_GPR == 16
RAM_SIZE == 4096
WIDTH == 64
HEIGHT == 32
TIMER_DEFAULT == 8
PX_OFF == 0
PX_ON == 16777215
PROGRAM_START_ADDR == 512
STACK_SIZE == 16
NUM_KEYS == 16
GFX_SIZE == 2048

\* ------------------------------------------------------------------- bounds
\* rng.gen::<u8>() is drawn from 0..MaxRand and 255-MaxRand..255
MaxRand == 0
\* the user holds at most MaxKeysDown of the sampled physical keys at once
MaxKeysDown == 2

\* ------------------------------------------------------- machine arithmetic
U8 == 256
U16 == 65536

RECURSIVE BitAnd(_, _)
BitAnd(a, b) ==
    IF a = 0 \/ b = 0 THEN 0
    ELSE (a % 2) * (b % 2) + 2 * BitAnd(a \div 2, b \div 2)

RECURSIVE BitOr(_, _)
BitOr(a, b) ==
    IF a = 0 THEN b
    ELSE IF b = 0 THEN a
    ELSE (IF a % 2 = 1 \/ b % 2 = 1 THEN 1 ELSE 0) + 2 * BitOr(a \div 2, b \div 2)

RECURSIVE BitXor(_, _)
BitXor(a, b) ==
    IF a = 0 THEN b
    ELSE IF b = 0 THEN a
    ELSE ((a + b) % 2) + 2 * BitXor(a \div 2, b \div 2)

RECURSIVE Pow2(_)
Pow2(n) == IF n = 0 THEN 1 ELSE 2 * Pow2(n - 1)

Shr(a, n) == a \div Pow2(n)

\* ------------------------------------------------------------------- state
VARIABLES
    build,            \* "cpu.rs" or "main.rs": which copy of Cpu is compiled
    overflow_checks,  \* rustc's overflow checks: on (debug) or off (release)
    data,             \* main's data: the bytes read from the ROM file
    phase,            \* position of main: "new", "loaded", "running",
                      \* "exited", "panicked"
    reg_gpr, reg_i, reg_dt, reg_st, reg_pc, sp, stack, gfx, keys,
    memory,           \* Ram.memory
    time_to_runloop,  \* main's cadence counter
    audio_paused,     \* the audio sink: paused or playing
    window_open,      \* the host window
    window_keys,      \* the physical keys the window reports as held
    instruction,      \* the opcode fetched by the last run_instruction
    fetch_pc,         \* reg_pc at the last fetch
    call_sites,       \* history: the full addresses of the calls not yet
                      \* returned from, innermost last
    before,           \* history: the display, I, the registers and the
                      \* memory as they were before the last step
    stored            \* history: the last FX55 (its X, I and the registers
                      \* at the store) while the memory it wrote is intact

cpu_vars == <<reg_gpr, reg_i, reg_dt, reg_st, reg_pc, sp, stack, gfx, keys>>
vars == <<build, overflow_checks, data, phase, reg_gpr, reg_i, reg_dt, reg_st,
          reg_pc, sp, stack, gfx, keys, memory, time_to_runloop,
          audio_paused, window_open, window_keys, instruction, fetch_pc,
          call_sites, before, stored>>


\* ------------------------------------------------------------ Cpu and Ram
\* The machine as one value: the fields of Cpu, Ram.memory, and whether the
\* step panicked (a panic ends the process).
Machine ==
    [reg_gpr |-> reg_gpr, reg_i |-> reg_i, reg_dt |-> reg_dt,
     reg_st |-> reg_st, reg_pc |-> reg_pc, sp |-> sp, stack |-> stack,
     gfx |-> gfx, keys |-> keys, memory |-> memory, panicked |-> FALSE]

Panic(m) == [m EXCEPT !.panicked = TRUE]

\* a + b on a w-bit unsigned integer with the plain operator: the build's
\* overflow checks decide between a panic (-1) and wrapping
CheckedAdd(a, b, w) ==
    IF a + b >= w THEN (IF overflow_checks THEN -1 ELSE (a + b) % w)
    ELSE a + b

\* a - b on a w-bit unsigned integer with the plain operator
CheckedSub(a, b, w) ==
    IF a - b < 0 THEN (IF overflow_checks THEN -1 ELSE (a - b + w) % w)
    ELSE a - b

\* mutant of InBounds: the index check is off by one
InBounds_OffByOne(addr) == addr >= 0 /\ addr <= RAM_SIZE

InBounds(addr) == addr >= 0 /\ addr < RAM_SIZE

\* Ram.memory ([u8; 4096]) and Cpu.gfx ([u32; 2048]) are kept as the
\* functions from the indices of their nonzero cells to those cells; every
\* other cell of the array is 0.
CellAt(cells, index) == IF index \in DOMAIN cells THEN cells[index] ELSE 0

SetCell(cells, index, value) ==
    [a \in (IF value = 0 THEN DOMAIN cells \ {index}
            ELSE DOMAIN cells \cup {index}) |->
        IF a = index THEN value ELSE cells[a]]

NoCells == [a \in {} |-> 0]

\* Ram::read_byte, for an address in bounds
read_byte(m, addr) == CellAt(m.memory, addr)

\* Ram::write_byte, for an address in bounds
write_byte(m, addr, value) == [m EXCEPT !.memory = SetCell(@, addr, value)]

\* decode
OpX(opcode) == Shr(BitAnd(opcode, \h0F00), 8)
OpY(opcode) == Shr(BitAnd(opcode, \h00F0), 4)
OpNNN(opcode) == BitAnd(opcode, \h0FFF)
OpNN(opcode) == BitAnd(opcode, \h00FF)
OpN(opcode) == BitAnd(opcode, \h000F)
OpGroup(opcode) == BitAnd(opcode, \hF000)

get_reg_vx(m, opcode) == m.reg_gpr[OpX(opcode)]
set_reg_vx(m, opcode, value) == [m EXCEPT !.reg_gpr[OpX(opcode)] = value]
get_reg_vy(m, opcode) == m.reg_gpr[OpY(opcode)]
set_reg_vy(m, opcode, value) == [m EXCEPT !.reg_gpr[OpY(opcode)] = value]

\* self.reg_pc += 2
AdvancePc(m) ==
    LET pc == CheckedAdd(m.reg_pc, 2, U16)
    IN  IF pc < 0 THEN Panic(m) ELSE [m EXCEPT !.reg_pc = pc]

\* println!("Invalid opcode ..."): nothing else happens
InvalidOpcode(m, opcode) == m

\* mutant of Op00E0: the loop stops one cell short of the end of gfx
Op00E0_StopsShort(m, opcode) ==
    AdvancePc([m EXCEPT !.gfx =
        [a \in DOMAIN m.gfx \cap {GFX_SIZE - 1} |-> m.gfx[a]]])

\* 0x00E0 arm (every 0x0NN0 opcode lands here)
Op00E0(m, opcode) ==
    AdvancePc([m EXCEPT !.gfx = NoCells])

\* mutant of Op00EE: sp is decremented modulo the size of the stack
Op00EE_Wraps(m, opcode) ==
    LET nsp == (m.sp + STACK_SIZE - 1) % STACK_SIZE
    IN  AdvancePc([m EXCEPT !.sp = nsp, !.reg_pc = m.stack[nsp]])

\* 0x00EE arm (every 0x0NNE opcode lands here)
Op00EE(m, opcode) ==
    LET nsp == CheckedSub(m.sp, 1, U8)
    IN  IF nsp < 0 \/ nsp >= STACK_SIZE THEN Panic(m)
        ELSE AdvancePc([m EXCEPT !.sp = nsp, !.reg_pc = m.stack[nsp]])

Op1NNN(m, opcode) == [m EXCEPT !.reg_pc = OpNNN(opcode)]

\* mutant of Op2NNN: a call on a full stack drops the return address and
\* goes on
Op2NNN_NoLimit(m, opcode) ==
    [m EXCEPT !.stack = [i \in DOMAIN @ |->
                            IF i = m.sp THEN m.reg_pc % U8 ELSE @[i]],
              !.sp = m.sp + 1,
              !.reg_pc = BitAnd(opcode, \h0FFF)]

Op2NNN(m, opcode) ==
    IF m.sp >= STACK_SIZE THEN Panic(m)
    ELSE LET nsp == CheckedAdd(m.sp, 1, U8)
         IN  IF nsp < 0 THEN Panic(m)
             ELSE [m EXCEPT !.stack[m.sp] = m.reg_pc % U8,
                            !.sp = nsp,
                            !.reg_pc = BitAnd(opcode, \h0FFF)]

\* the shape shared by the conditional skips
SkipIf(m, cond) == AdvancePc(IF cond THEN AdvancePc(m) ELSE m)

Op3XNN(m, opcode) == SkipIf(m, get_reg_vx(m, opcode) = OpNN(opcode))

\* mutant of Op4XNN: the comparison of 3XNN
Op4XNN_SkipsOnEqual(m, opcode) ==
    SkipIf(m, get_reg_vx(m, opcode) = OpNN(opcode))

Op4XNN(m, opcode) == SkipIf(m, get_reg_vx(m, opcode) # OpNN(opcode))

Op5XY0(m, opcode) == SkipIf(m, get_reg_vx(m, opcode) = get_reg_vy(m, opcode))

Op9XY0(m, opcode) == SkipIf(m, get_reg_vx(m, opcode) # get_reg_vy(m, opcode))

Op6XNN(m, opcode) == AdvancePc(set_reg_vx(m, opcode, OpNN(opcode)))

Op7XNN(m, opcode) ==
    AdvancePc(set_reg_vx(m, opcode, (get_reg_vx(m, opcode) + OpNN(opcode)) % U8))

Op8XY0(m, opcode) == AdvancePc(set_reg_vx(m, opcode, get_reg_vy(m, opcode)))

Op8XY1(m, opcode) ==
    AdvancePc(set_reg_vx(m, opcode,
                         BitOr(get_reg_vx(m, opcode), get_reg_vy(m, opcode))))

Op8XY2(m, opcode) ==
    AdvancePc(set_reg_vx(m, opcode,
                         BitAnd(get_reg_vx(m, opcode), get_reg_vy(m, opcode))))

Op8XY3(m, opcode) ==
    AdvancePc(set_reg_vx(m, opcode,
                         BitXor(get_reg_vx(m, opcode), get_reg_vy(m, opcode))))

\* the sum stored by 8XY4: wrapping_add in cpu.rs, the plain + in main.rs
Add8XY4(reg_vx, reg_vy) ==
    IF build = "cpu.rs" THEN (reg_vx + reg_vy) % U8
    ELSE CheckedAdd(reg_vx, reg_vy, U8)

\* the carry test of 8XY4
Carry8XY4(reg_vx, reg_vy) == IF reg_vy > \h00FF - reg_vx THEN 1 ELSE 0

Op8XY4(m, opcode) ==
    LET reg_vx == get_reg_vx(m, opcode)
        reg_vy == get_reg_vy(m, opcode)
        m1 == [m EXCEPT !.reg_gpr[15] = Carry8XY4(reg_vx, reg_vy)]
        sum == Add8XY4(reg_vx, reg_vy)
    IN  IF sum < 0 THEN Panic(m) ELSE AdvancePc(set_reg_vx(m1, opcode, sum))

\* the flag test of 8XY5
Flag8XY5(reg_vx, reg_vy) == IF reg_vx > reg_vy THEN 1 ELSE 0

Op8XY5(m, opcode) ==
    LET reg_vx == get_reg_vx(m, opcode)
        reg_vy == get_reg_vy(m, opcode)
        m1 == [m EXCEPT !.reg_gpr[15] = Flag8XY5(reg_vx, reg_vy)]
        diff == CheckedSub(reg_vx, reg_vy, U8)
    IN  IF diff < 0 THEN Panic(m) ELSE AdvancePc(set_reg_vx(m1, opcode, diff))

Op8XY6(m, opcode) ==
    LET reg_vx == get_reg_vx(m, opcode)
        m1 == [m EXCEPT !.reg_gpr[15] = BitAnd(reg_vx, 1)]
    IN  AdvancePc(set_reg_vx(m1, opcode, Shr(reg_vx, 1)))

Op8XY7(m, opcode) ==
    LET reg_vx == get_reg_vx(m, opcode)
        reg_vy == get_reg_vy(m, opcode)
        m1 == [m EXCEPT !.reg_gpr[15] = IF reg_vy > reg_vx THEN 1 ELSE 0]
        diff == CheckedSub(reg_vy, reg_vx, U8)
    IN  IF diff < 0 THEN Panic(m) ELSE AdvancePc(set_reg_vy(m1, opcode, diff))

Op8XYE(m, opcode) ==
    LET reg_vx == get_reg_vx(m, opcode)
        m1 == [m EXCEPT !.reg_gpr[15] = BitAnd(Shr(reg_vx, 3), 1)]
    IN  AdvancePc(set_reg_vx(m1, opcode, (reg_vx * 2) % U8))

OpANNN(m, opcode) == AdvancePc([m EXCEPT !.reg_i = OpNNN(opcode)])

OpBNNN(m, opcode) ==
    LET pc == CheckedAdd(OpNNN(opcode), m.reg_gpr[0], U16)
    IN  IF pc < 0 THEN Panic(m) ELSE [m EXCEPT !.reg_pc = pc]

OpCXNN(m, opcode, rand_num) ==
    AdvancePc(set_reg_vx(m, opcode, BitAnd(rand_num, OpNN(opcode))))


\* mutant of PixelIndex: a row that passes the right edge runs on into the
\* next row instead of wrapping
PixelIndex_NoWrapX(x, y, y_line, x_line) ==
    LET pos_x == x + x_line
        pos_y == (y + y_line) % HEIGHT
    IN  (pos_x + (pos_y * 64)) % GFX_SIZE

\* the gfx index of the pixel x_line to the right of and y_line below (x, y)
PixelIndex(x, y, y_line, x_line) ==
    LET pos_x == (x + x_line) % WIDTH
        pos_y == (y + y_line) % HEIGHT
    IN  pos_x + (pos_y * 64)

\* mutant of DrawBits: a set bit of the sprite toggles the low 16 bits of
\* its pixel only
RECURSIVE DrawBits_LowBits(_, _, _, _, _, _)
DrawBits_LowBits(m, pixel, x, y, y_line, x_line) ==
    IF x_line >= 8 THEN m
    ELSE IF BitAnd(pixel, Shr(\h0080, x_line)) # 0
         THEN LET at == PixelIndex(x, y, y_line, x_line)
                  m1 == IF CellAt(m.gfx, at) = PX_ON
                        THEN [m EXCEPT !.reg_gpr[15] = 1]
                        ELSE m
                  m2 == [m1 EXCEPT !.gfx =
                            SetCell(@, at, BitXor(CellAt(m1.gfx, at), \hFFFF))]
              IN  DrawBits_LowBits(m2, pixel, x, y, y_line, x_line + 1)
         ELSE DrawBits_LowBits(m, pixel, x, y, y_line, x_line + 1)

\* mutant of DrawBits: a set bit of the sprite turns its pixel on instead
\* of toggling it
RECURSIVE DrawBits_TurnsOn(_, _, _, _, _, _)
DrawBits_TurnsOn(m, pixel, x, y, y_line, x_line) ==
    IF x_line >= 8 THEN m
    ELSE IF BitAnd(pixel, Shr(\h0080, x_line)) # 0
         THEN LET at == PixelIndex(x, y, y_line, x_line)
                  m1 == IF CellAt(m.gfx, at) = PX_ON
                        THEN [m EXCEPT !.reg_gpr[15] = 1]
                        ELSE m
                  m2 == [m1 EXCEPT !.gfx = SetCell(@, at, PX_ON)]
              IN  DrawBits_TurnsOn(m2, pixel, x, y, y_line, x_line + 1)
         ELSE DrawBits_TurnsOn(m, pixel, x, y, y_line, x_line + 1)

\* DXYN, the inner loop: the bits x_line..7 of one sprite row
RECURSIVE DrawBits(_, _, _, _, _, _)
DrawBits(m, pixel, x, y, y_line, x_line) ==
    IF x_line >= 8 THEN m
    ELSE IF BitAnd(pixel, Shr(\h0080, x_line)) # 0
         THEN LET at == PixelIndex(x, y, y_line, x_line)
                  m1 == IF CellAt(m.gfx, at) = PX_ON
                        THEN [m EXCEPT !.reg_gpr[15] = 1]
                        ELSE m
                  m2 == [m1 EXCEPT !.gfx =
                            SetCell(@, at, BitXor(CellAt(m1.gfx, at), PX_ON))]
              IN  DrawBits(m2, pixel, x, y, y_line, x_line + 1)
         ELSE DrawBits(m, pixel, x, y, y_line, x_line + 1)

\* DXYN, the outer loop: the rows y_line..height-1
RECURSIVE DrawRows(_, _, _, _, _)
DrawRows(m, height, x, y, y_line) ==
    IF y_line >= height THEN m
    ELSE LET addr == CheckedAdd(m.reg_i, y_line, U16)
         IN  IF ~InBounds(addr) THEN Panic(m)
             ELSE DrawRows(DrawBits(m, read_byte(m, addr), x, y, y_line, 0),
                           height, x, y, y_line + 1)

\* x and y are read before VF is cleared
OpDXYN(m, opcode) ==
    LET x == get_reg_vx(m, opcode)
        y == get_reg_vy(m, opcode)
        height == BitAnd(opcode, \h000F)
        md == DrawRows([m EXCEPT !.reg_gpr[15] = 0], height, x, y, 0)
    IN  IF md.panicked THEN Panic(m) ELSE AdvancePc(md)

OpEX9E(m, opcode) ==
    LET reg_vx == get_reg_vx(m, opcode)
    IN  IF reg_vx >= NUM_KEYS THEN Panic(m)
        ELSE SkipIf(m, m.keys[reg_vx] # 0)

OpEXA1(m, opcode) ==
    LET reg_vx == get_reg_vx(m, opcode)
    IN  IF reg_vx >= NUM_KEYS THEN Panic(m)
        ELSE SkipIf(m, m.keys[reg_vx] = 0)

OpFX07(m, opcode) == AdvancePc(set_reg_vx(m, opcode, m.reg_dt))

\* mutant of FirstKey: the scan has no break and ends on the last pressed
\* key
FirstKey_NoBreak(ks, from) ==
    LET pressed == {i \in from..(NUM_KEYS - 1) : ks[i] # 0}
    IN  IF pressed = {} THEN NUM_KEYS
        ELSE CHOOSE i \in pressed : \A j \in pressed : j <= i

\* the scan of FX0A: the first i in from..15 with keys[i] != 0, or 16
RECURSIVE FirstKey(_, _)
FirstKey(ks, from) ==
    IF from >= NUM_KEYS THEN NUM_KEYS
    ELSE IF ks[from] # 0 THEN from
    ELSE FirstKey(ks, from + 1)

\* mutant of OpFX0A: reg_pc advances also when no key is pressed
OpFX0A_NeverWaits(m, opcode) ==
    LET i == FirstKey(m.keys, 0)
    IN  IF i >= NUM_KEYS THEN AdvancePc(m)
        ELSE AdvancePc(set_reg_vx(m, opcode, i))

OpFX0A(m, opcode) ==
    LET i == FirstKey(m.keys, 0)
        key_pressed == i < NUM_KEYS
    IN  IF ~key_pressed THEN m
        ELSE AdvancePc(set_reg_vx(m, opcode, i))

OpFX15(m, opcode) == AdvancePc([m EXCEPT !.reg_dt = get_reg_vx(m, opcode)])

OpFX18(m, opcode) == AdvancePc([m EXCEPT !.reg_st = get_reg_vx(m, opcode)])

OpFX1E(m, opcode) ==
    LET i == CheckedAdd(m.reg_i, get_reg_vx(m, opcode), U16)
    IN  IF i < 0 THEN Panic(m) ELSE AdvancePc([m EXCEPT !.reg_i = i])

\* self.gfx[reg_vx as usize] as u16
OpFX29(m, opcode) ==
    AdvancePc([m EXCEPT !.reg_i = CellAt(m.gfx, get_reg_vx(m, opcode)) % U16])

\* mutant of OpFX33: the tens digit is not reduced modulo 10
OpFX33_TensNotReduced(m, opcode) ==
    LET reg_vx == get_reg_vx(m, opcode)
    IN  IF ~InBounds(m.reg_i + 2) THEN Panic(m)
        ELSE AdvancePc(
               write_byte(
                 write_byte(
                   write_byte(m, m.reg_i, reg_vx \div 100),
                   m.reg_i + 1, reg_vx \div 10),
                 m.reg_i + 2, (reg_vx % 100) % 10))

OpFX33(m, opcode) ==
    LET reg_vx == get_reg_vx(m, opcode)
    IN  IF ~InBounds(m.reg_i + 2) THEN Panic(m)
        ELSE AdvancePc(
               write_byte(
                 write_byte(
                   write_byte(m, m.reg_i, reg_vx \div 100),
                   m.reg_i + 1, (reg_vx \div 10) % 10),
                 m.reg_i + 2, (reg_vx % 100) % 10))

\* self.reg_gpr.iter().position(|&val| val == v).unwrap()
RECURSIVE Position(_, _, _)
Position(regs, v, from) ==
    IF from >= NUM_GPR THEN NUM_GPR
    ELSE IF regs[from] = v THEN from
    ELSE Position(regs, v, from + 1)

\* the last register index FX55 stores: X in cpu.rs, the first register
\* that holds the value of VX in main.rs
StoreLast(m, opcode) ==
    IF build = "cpu.rs" THEN OpX(opcode)
    ELSE Position(m.reg_gpr, get_reg_vx(m, opcode), 0)

\* the loop of FX55: write_byte(reg_i + index, reg_gpr[index]) for
\* index..last
RECURSIVE StoreRegs(_, _, _)
StoreRegs(m, index, last) ==
    IF index > last THEN m
    ELSE StoreRegs(write_byte(m, m.reg_i + index, m.reg_gpr[index]),
                   index + 1, last)

\* FX55: neither copy advances reg_pc
OpFX55(m, opcode) ==
    LET last == StoreLast(m, opcode)
    IN  IF ~InBounds(m.reg_i + last) THEN Panic(m)
        ELSE StoreRegs(m, 0, last)

\* FX65 in cpu.rs: every iteration writes VX, so VX ends as the last byte
\* read; in main.rs the loop only reads.  Neither copy advances reg_pc.
OpFX65(m, opcode) ==
    IF build = "cpu.rs"
    THEN IF ~InBounds(m.reg_i + OpX(opcode)) THEN Panic(m)
         ELSE set_reg_vx(m, opcode, read_byte(m, m.reg_i + OpX(opcode)))
    ELSE m

\* match instruction & 0xF000 { ... }
Execute(m, opcode, rand_num) ==
    LET group == OpGroup(opcode)
        low == BitAnd(opcode, \h000F)
    IN  CASE group = \h0000 ->
               (CASE low = 0 -> Op00E0(m, opcode)
                  [] low = \hE -> Op00EE(m, opcode)
                  [] OTHER -> InvalidOpcode(m, opcode))
          [] group = \h1000 -> Op1NNN(m, opcode)
          [] group = \h2000 -> Op2NNN(m, opcode)
          [] group = \h3000 -> Op3XNN(m, opcode)
          [] group = \h4000 -> Op4XNN(m, opcode)
          [] group = \h5000 -> Op5XY0(m, opcode)
          [] group = \h6000 -> Op6XNN(m, opcode)
          [] group = \h7000 -> Op7XNN(m, opcode)
          [] group = \h8000 ->
               (CASE low = 0 -> Op8XY0(m, opcode)
                  [] low = 1 -> Op8XY1(m, opcode)
                  [] low = 2 -> Op8XY2(m, opcode)
                  [] low = 3 -> Op8XY3(m, opcode)
                  [] low = 4 -> Op8XY4(m, opcode)
                  [] low = 5 -> Op8XY5(m, opcode)
                  [] low = 6 -> Op8XY6(m, opcode)
                  [] low = 7 -> Op8XY7(m, opcode)
                  [] low = \hE -> Op8XYE(m, opcode)
                  [] OTHER -> InvalidOpcode(m, opcode))
          [] group = \h9000 -> Op9XY0(m, opcode)
          [] group = \hA000 -> OpANNN(m, opcode)
          [] group = \hB000 -> OpBNNN(m, opcode)
          [] group = \hC000 -> OpCXNN(m, opcode, rand_num)
          [] group = \hD000 -> OpDXYN(m, opcode)
          [] group = \hE000 ->
               (CASE low = \hE /\ build = "cpu.rs" -> OpEX9E(m, opcode)
                  [] low = 1 -> OpEXA1(m, opcode)
                  [] OTHER -> InvalidOpcode(m, opcode))
          [] group = \hF000 ->
               (CASE low = 7 -> OpFX07(m, opcode)
                  [] low = \hA -> OpFX0A(m, opcode)
                  [] low = 5 ->
                       (CASE OpNN(opcode) = \h15 -> OpFX15(m, opcode)
                          [] OpNN(opcode) = \h55 -> OpFX55(m, opcode)
                          [] OpNN(opcode) = \h65 -> OpFX65(m, opcode)
                          [] OTHER -> InvalidOpcode(m, opcode))
                  [] low = 8 -> OpFX18(m, opcode)
                  [] low = \hE -> OpFX1E(m, opcode)
                  [] low = 9 -> OpFX29(m, opcode)
                  [] low = 3 -> OpFX33(m, opcode)
                  [] OTHER -> InvalidOpcode(m, opcode))
          [] OTHER -> InvalidOpcode(m, opcode)

\* the big-endian fetch at reg_pc
Fetch(m) == (read_byte(m, m.reg_pc) * 256) + read_byte(m, m.reg_pc + 1)

FetchInBounds(m) == InBounds(m.reg_pc) /\ InBounds(m.reg_pc + 1)

run_instruction(m, rand_num) ==
    IF ~FetchInBounds(m) THEN Panic(m)
    ELSE Execute(m, Fetch(m), rand_num)


\* ------------------------------------------------------------- the keypad
\* the match of handle_keypress: physical key -> hex key
KeyMap ==
    [k \in {"Key1", "Key2", "Key3", "Key4", "Q", "W", "E", "R",
            "A", "S", "D", "F", "Z", "X", "C", "V"} |->
        CASE k = "Key1" -> \h1 [] k = "Key2" -> \h2 [] k = "Key3" -> \h3
          [] k = "Key4" -> \hC [] k = "Q" -> \h4 [] k = "W" -> \h5
          [] k = "E" -> \h6 [] k = "R" -> \hD [] k = "A" -> \h7
          [] k = "S" -> \h8 [] k = "D" -> \h9 [] k = "F" -> \hE
          [] k = "Z" -> \hA [] k = "X" -> \h0 [] k = "C" -> \hB
          [] k = "V" -> \hF]

\* the hex keys that the held physical keys map to (others are a no-op)
HexKeys(held) == {KeyMap[k] : k \in held \cap DOMAIN KeyMap}

\* cpu.rs clears self.keys first, main.rs does not
handle_keypress(ks, held) ==
    [i \in 0..(NUM_KEYS - 1) |->
        IF i \in HexKeys(held) THEN 1
        ELSE IF build = "cpu.rs" THEN 0 ELSE ks[i]]

\* the physical keys the user touches, and the sets of them held at once
SampledKeys == {"Key2", "V"}
KeySets == {h \in SUBSET SampledKeys : Cardinality(h) <= MaxKeysDown}

\* the values rng.gen() yields
RandBytes == (0..MaxRand) \cup ((255 - MaxRand)..255)

\* ---------------------------------------------------------------- the ROMs
\* the bytes of a sequence of 16-bit opcodes, big-endian
Bytes(ws) ==
    [i \in 1..(2 * Len(ws)) |->
        IF i % 2 = 1 THEN ws[(i + 1) \div 2] \div 256 ELSE ws[i \div 2] % 256]

\* a ROM image: the opcodes ws1 at 0x200, zeros up to addr, the opcodes ws2
\* at addr
Far(ws1, addr, ws2) ==
    LET b1 == Bytes(ws1)
        b2 == Bytes(ws2)
        off == addr - PROGRAM_START_ADDR
    IN  [i \in 1..(off + Len(b2)) |->
            IF i <= Len(b1) THEN b1[i]
            ELSE IF i <= off THEN 0
            ELSE b2[i - off]]

\* 8XYk on two random registers, for every k the 0x8 group decodes, the
\* two sums and differences the specification works out, a reverse
\* subtraction either way round, and left shifts of bit 7 and of bit 3
AluRoms ==
    {Bytes(<<\hCAFF, \hCBFF, \h8AB0 + k, \h00EE>>) :
        k \in {0, 1, 2, 3, 4, 5, 6, 7, 14}}
    \cup {Bytes(<<\h6AFF, \h6B01, \h8AB4, \h00EE>>),
          Bytes(<<\h6A01, \h6B02, \h8AB5, \h00EE>>),
          Bytes(<<\h6A01, \h6B03, \h8AB7, \h00EE>>),
          Bytes(<<\h6A03, \h6B01, \h8AB7, \h00EE>>),
          Bytes(<<\h6A80, \h8ABE, \h00EE>>),
          Bytes(<<\h6A08, \h8ABE, \h00EE>>)}

\* the four conditional skips, on a random register against 0x00 and 0xFF
\* and on two random registers
SkipRoms ==
    {Bytes(<<\hCAFF, op + nn, \h00EE, \h00EE>>) :
        op \in {\h3A00, \h4A00}, nn \in {\h00, \hFF}}
    \cup {Bytes(<<\hCAFF, \hCBFF, op, \h00EE, \h00EE>>) :
              op \in {\h5AB0, \h9AB0}}

\* the key skips on key 0 or key F, and the key wait
KeyRoms ==
    {Bytes(<<\hCA0F, \hEA9E, \h00EE, \h00EE>>),
     Bytes(<<\hCA0F, \hEAA1, \h00EE, \h00EE>>),
     Bytes(<<\hFA0A, \h00EE>>)}

\* a call at 0x200 and the return from it, two nested calls and a return,
\* and a call at 0x302
CallRoms ==
    {Bytes(<<\h2202, \h00EE>>),
     Bytes(<<\h2202, \h2204, \h00EE>>),
     Far(<<\h1302>>, \h302, <<\h2304, \h00EE>>)}

\* opcodes that no arm decodes
InvalidRoms ==
    {Bytes(<<\hFFFF>>), Bytes(<<\h8AB8>>)}

\* straight-line code through the plain instructions, ending in a
\* register store; a register load
PlainRoms ==
    {Bytes(<<\h00E0, \h6A12, \h7AFF, \hA123, \h6C01, \hFC15, \hFC18,
             \hFA07, \hFA1E, \hFA29, \hFA33, \hF155>>),
     Bytes(<<\hA000, \hF165>>)}

\* sprites of the font drawn twice: at the origin, across the right and
\* the bottom edge, over another sprite, and from coordinates beyond the
\* screen
DrawRoms ==
    {Bytes(<<\h6A00 + x, \h6B00 + y, \hA000 + i, \hDAB0 + n, \hDAB0 + n,
             \h00EE>>) :
        x \in {0}, y \in {0}, i \in {0}, n \in {0, 1, 5}}
    \cup {Bytes(<<\h6A3C, \h6B1E, \hA005, \hDAB5, \hDAB5, \h00EE>>),
          Bytes(<<\hA000, \hDAB5, \hA005, \hDAB5, \hDAB5, \h00EE>>),
          Bytes(<<\h6F05, \hA000, \hDFF5, \h00EE>>),
          Bytes(<<\h6AFF, \h6BFF, \hA000, \hDABF, \hA001, \hDABF, \h00EE>>)}

\* F155 at 0x206 stores V0 = 0x12 and V1 = 0x0A over itself, which makes
\* it the jump 120A; the code at 0x20A clears V0 and V1 and loads them back
\* with F165
StoreRoms ==
    {Bytes(<<\h6012, \h610A, \hA206, \hF155, \h0000, \h6000, \h6100,
             \hF165>>)}

\* FX29 for the digits 0, 3 and F on a clear display, and for the digit 2
\* after the sprite of 0 was drawn at the origin
FontRoms ==
    {Bytes(<<\h6A00 + d, \hFA29, \h00EE>>) : d \in {0, 3, 15}}
    \cup {Bytes(<<\h6C02, \hA000, \hDAB5, \hFC29, \h00EE>>)}

\* FX33 on values with one, two and three digits at I = 0x300, on a
\* random byte over the font, and at the highest I that fits
BcdRoms ==
    {Bytes(<<\h6A00 + v, \hA300, \hFA33, \h00EE>>) :
        v \in {0, 9, 10, 99, 100, 156, 255}}
    \cup {Bytes(<<\hCAFF, \hA001, \hFA33, \h00EE>>),
          Bytes(<<\h6A9C, \hAFFD, \hFA33, \h00EE>>)}

\* 00E0 on a clear display, after a sprite was drawn at the origin with
\* the timers running (as the sixth instruction, and as the ninth, in the
\* iteration that makes the cadence tick), and after a sprite was drawn
\* across both edges
ClearRoms ==
    {Bytes(<<\h00E0, \h00EE>>),
     Bytes(<<\h6C02, \hFC15, \hFC18, \hA000, \hDAB5, \h00E0, \h00EE>>),
     Bytes(<<\h6C02, \hFC15, \hFC18, \hA000, \hDAB5, \h6000, \h6000,
             \h6000, \h00E0, \h00EE>>),
     Bytes(<<\h6A3C, \h6B1E, \hA000, \hDAB5, \h00E0, \h00EE>>)}

\* a return on an empty stack, a call, its return and one more return, and
\* seventeen nested calls
StackRoms ==
    {Bytes(<<\h00EE>>),
     Bytes(<<\h2204, \h00EE, \h00EE>>),
     Bytes([k \in 1..(STACK_SIZE + 1) |-> \h2200 + (2 * k)])}

\* jumps and a call to even and to odd addresses; the bytes 00 EE stand at
\* each target
JumpRoms ==
    {Bytes(<<\h1204, \h0000, \h00EE>>),
     Bytes(<<\h1203, \h0000, \hEE00>>),
     Bytes(<<\h6002, \hB204, \h0000, \h00EE>>),
     Bytes(<<\h6001, \hB204, \h0000, \hEE00>>),
     Bytes(<<\h2203, \h0000, \hEE00>>)}

\* steps that start with reg_pc = 4095 and 4096, and sprite reads, digit
\* writes, register stores and register loads that reach or pass the last
\* cell of the memory
OobRoms ==
    {Bytes(<<\h1FFF>>),
     Bytes(<<\h1FFE>>),
     Bytes(<<\hAFFF, \hD002>>),
     Bytes(<<\hAFFF, \hD001, \h00EE>>),
     Bytes(<<\h6A9C, \hAFFE, \hFA33>>),
     Bytes(<<\h6101, \hAFFF, \hF155>>),
     Bytes(<<\hAFFF, \hF155>>),
     Bytes(<<\hAFFF, \hF165>>)}

\* both timers set to 2 and a jump to itself; the delay timer set by the
\* ninth instruction, in the iteration that makes the tick; both timers set
\* to 1 before a key wait
TimerRoms ==
    {Bytes(<<\h6C02, \hFC15, \hFC18, \h1206>>),
     Bytes(<<\h6C03, \h6000, \h6000, \h6000, \h6000, \h6000, \h6000,
             \h6000, \hFC15, \h1212>>),
     Bytes(<<\h6C01, \hFC15, \hFC18, \hFA0A, \h00EE>>)}

\* opcodes outside the semantics table that share the leading and the
\* trailing nibble with an instruction of it: 0000 and 00F0 after a draw,
\* 00FE after a call, E0FE, F117 with the delay timer set, F10E
DecodeRoms ==
    {Bytes(<<\hA000, \hD005, op, \h00EE>>) : op \in {\h0000, \h00F0}}
    \cup {Bytes(<<\h2204, \h0000, \h00FE>>),
          Bytes(<<\hE0FE, \h00EE, \h00EE>>),
          Bytes(<<\h6101, \h6C05, \hFC15, \hF117, \h00EE>>),
          Bytes(<<\h6101, \hF10E, \h00EE>>)}

\* flag-setting instructions whose target register is VF: 8FB4 on 5 + 1,
\* 8FB5 on 5 - 1, 8FB6 on 2, 8AF7 on 3 - 1 and 8FBE on 1
FlagRoms ==
    {Bytes(<<\h6F05, \h6B01, \h8FB4, \h00EE>>),
     Bytes(<<\h6F05, \h6B01, \h8FB5, \h00EE>>),
     Bytes(<<\h6F02, \h8FB6, \h00EE>>),
     Bytes(<<\h6A01, \h6F03, \h8AF7, \h00EE>>),
     Bytes(<<\h6F01, \h8FBE, \h00EE>>)}

Roms ==
    AluRoms \cup SkipRoms \cup KeyRoms \cup CallRoms \cup InvalidRoms
    \cup PlainRoms \cup DrawRoms \cup StoreRoms \cup FontRoms \cup BcdRoms
    \cup ClearRoms \cup StackRoms \cup JumpRoms \cup OobRoms \cup TimerRoms
    \cup DecodeRoms \cup FlagRoms

\* ------------------------------------------------------------------ main
\* the sprites of Ram::new
Sprites ==
    <<<<\hF0, \h90, \h90, \h90, \hF0>>,
      <<\h20, \h60, \h20, \h20, \h70>>,
      <<\hF0, \h10, \hF0, \h80, \hF0>>,
      <<\hF0, \h10, \hF0, \h10, \hF0>>,
      <<\h90, \h90, \hF0, \h10, \h10>>,
      <<\hF0, \h80, \hF0, \h10, \hF0>>,
      <<\hF0, \h80, \hF0, \h90, \hF0>>,
      <<\hF0, \h10, \h20, \h40, \h40>>,
      <<\hF0, \h90, \hF0, \h90, \hF0>>,
      <<\hF0, \h90, \hF0, \h10, \hF0>>,
      <<\hF0, \h90, \hF0, \h90, \h90>>,
      <<\hE0, \h90, \hE0, \h90, \hE0>>,
      <<\hF0, \h80, \h80, \h80, \hF0>>,
      <<\hE0, \h90, \h90, \h90, \hE0>>,
      <<\hF0, \h80, \hF0, \h80, \hF0>>,
      <<\hF0, \h80, \hF0, \h80, \h80>>>>

\* mutant of RamNew: the sprites are copied from address 0x50 on
RamNew_At0x50 ==
    [i \in \h50..(\h50 + 5 * Len(Sprites) - 1) |->
        Sprites[((i - \h50) \div 5) + 1][((i - \h50) % 5) + 1]]

\* Ram::new: zeroed memory, then the sprites copied from address 0 on
RamNew ==
    [i \in 0..(5 * Len(Sprites) - 1) |-> Sprites[(i \div 5) + 1][(i % 5) + 1]]

\* the state after Chip8::new(), for a ROM file that holds one of roms
InitWith(roms) ==
    /\ build \in {"cpu.rs", "main.rs"}
    /\ overflow_checks \in BOOLEAN
    /\ data \in roms
    /\ phase = "new"
    /\ reg_gpr = [r \in 0..(NUM_GPR - 1) |-> 0]
    /\ reg_i = 0
    /\ reg_dt = 0
    /\ reg_st = 0
    /\ reg_pc = PROGRAM_START_ADDR
    /\ sp = 0
    /\ stack = [i \in 0..(STACK_SIZE - 1) |-> 0]
    /\ gfx = NoCells
    /\ keys = [i \in 0..(NUM_KEYS - 1) |-> 0]
    /\ memory = RamNew
    /\ time_to_runloop = TIMER_DEFAULT
    /\ audio_paused = TRUE
    /\ window_open = FALSE
    /\ window_keys = {}
    /\ instruction = 0
    /\ fetch_pc = 0
    /\ call_sites = <<>>
    /\ before = [gfx |-> NoCells, reg_i |-> 0,
                 reg_gpr |-> [r \in 0..(NUM_GPR - 1) |-> 0],
                 memory |-> RamNew]
    /\ stored = <<>>

\* Chip8::load_rom: write_byte(PROGRAM_START_ADDR + i, data[i]) for every i
load_rom(mem, bytes) ==
    LET at(a) == IF a >= PROGRAM_START_ADDR /\ a < PROGRAM_START_ADDR + Len(bytes)
                 THEN bytes[a - PROGRAM_START_ADDR + 1]
                 ELSE CellAt(mem, a)
    IN  [a \in {b \in 0..(RAM_SIZE - 1) : at(b) # 0} |-> at(a)]

LoadRom ==
    /\ phase = "new"
    /\ IF Len(data) > RAM_SIZE - PROGRAM_START_ADDR
       THEN /\ phase' = "panicked"
            /\ UNCHANGED memory
       ELSE /\ phase' = "loaded"
            /\ memory' = load_rom(memory, data)
    /\ UNCHANGED <<build, overflow_checks, data, cpu_vars, time_to_runloop,
                   audio_paused, window_open, window_keys, instruction,
                   fetch_pc, call_sites, before, stored>>

\* the audio sink, the cadence counter, the window and the one call of
\* handle_keypress
StartUp ==
    /\ phase = "loaded"
    /\ phase' = "running"
    /\ audio_paused' = TRUE
    /\ time_to_runloop' = TIMER_DEFAULT
    /\ window_open' = TRUE
    /\ \E held \in KeySets :
         /\ window_keys' = held
         /\ keys' = handle_keypress(keys, held)
    /\ UNCHANGED <<build, overflow_checks, data, reg_gpr, reg_i, reg_dt, reg_st,
                   reg_pc, sp, stack, gfx, memory, instruction, fetch_pc,
                   call_sites, before, stored>>

\* the user presses or releases keys
KeyEvent ==
    /\ phase = "running"
    /\ window_open
    /\ \E held \in KeySets :
         /\ held # window_keys
         /\ window_keys' = held
    /\ UNCHANGED <<build, overflow_checks, data, phase, cpu_vars, memory,
                   time_to_runloop, audio_paused, window_open, instruction,
                   fetch_pc, call_sites, before, stored>>

\* the history of calls: pushed by a 2NNN that completes, popped by a
\* 00EE that completes
CallSitesAfter(m, opcode) ==
    IF OpGroup(opcode) = \h2000 THEN Append(call_sites, m.reg_pc)
    ELSE IF OpGroup(opcode) = \h0000 /\ OpN(opcode) = \hE
         THEN SubSeq(call_sites, 1, Len(call_sites) - 1)
    ELSE call_sites

\* the history of stores: set by an FX55 that completes, dropped by a step
\* that changes a memory cell the FX55 wrote
StoredAfter(m, opcode, after) ==
    IF OpGroup(opcode) = \hF000 /\ OpNN(opcode) = \h55
    THEN <<[x |-> OpX(opcode), reg_i |-> m.reg_i, reg_gpr |-> m.reg_gpr]>>
    ELSE IF stored # <<>>
            /\ \E a \in stored[1].reg_i..(stored[1].reg_i + stored[1].x) :
                   CellAt(after.memory, a) # CellAt(m.memory, a)
         THEN <<>>
    ELSE stored

\* mutant of TickTimer: the guard is off by one and the timer stops at 1
TickTimer_StopsAtOne(timer) == IF timer > 1 THEN timer - 1 ELSE timer

\* mutant of TickTimer: the decrement is not guarded and wraps
TickTimer_Wraps(timer) == (timer + U8 - 1) % U8

\* if timer > 0 { timer -= 1; }
TickTimer(timer) == IF timer > 0 THEN timer - 1 ELSE timer

\* one iteration of the while loop of main
LoopIteration ==
    /\ phase = "running"
    /\ window_open
    /\ reg_pc <= RAM_SIZE
    /\ fetch_pc' = reg_pc
    /\ instruction' = IF FetchInBounds(Machine) THEN Fetch(Machine)
                      ELSE instruction
    /\ \E rand_num \in RandBytes :
         \E m \in {run_instruction(Machine, rand_num)} :
             IF m.panicked
             THEN /\ phase' = "panicked"
                  /\ UNCHANGED <<cpu_vars, memory, time_to_runloop,
                                 audio_paused, call_sites, before, stored>>
             ELSE /\ phase' = "running"
                  /\ reg_gpr' = m.reg_gpr
                  /\ reg_i' = m.reg_i
                  /\ reg_pc' = m.reg_pc
                  /\ sp' = m.sp
                  /\ stack' = m.stack
                  /\ gfx' = m.gfx
                  /\ keys' = m.keys
                  /\ memory' = m.memory
                  /\ call_sites' = CallSitesAfter(Machine, Fetch(Machine))
                  /\ before' = [gfx |-> gfx, reg_i |-> reg_i,
                                reg_gpr |-> reg_gpr, memory |-> memory]
                  /\ stored' = StoredAfter(Machine, Fetch(Machine), m)
                  /\ IF time_to_runloop = 0
                     THEN /\ reg_dt' = TickTimer(m.reg_dt)
                          /\ reg_st' = TickTimer(m.reg_st)
                          /\ audio_paused' = ~(m.reg_st > 0)
                          /\ time_to_runloop' = TIMER_DEFAULT
                     ELSE /\ reg_dt' = m.reg_dt
                          /\ reg_st' = m.reg_st
                          /\ time_to_runloop' = time_to_runloop - 1
                          /\ UNCHANGED audio_paused
    /\ UNCHANGED <<build, overflow_checks, data, window_open, window_keys>>

\* the loop condition fails, because the user has closed the window or
\* because reg_pc is beyond RAM_SIZE: main returns
LoopExit ==
    /\ phase = "running"
    /\ \E is_open \in BOOLEAN :
         /\ ~(is_open /\ reg_pc <= RAM_SIZE)
         /\ window_open' = is_open
    /\ phase' = "exited"
    /\ UNCHANGED <<build, overflow_checks, data, cpu_vars, memory, time_to_runloop,
                   audio_paused, window_keys, instruction, fetch_pc,
                   call_sites, before, stored>>

Next ==
    \/ LoadRom
    \/ StartUp
    \/ KeyEvent
    \/ LoopIteration
    \/ LoopExit

Init == InitWith(Roms)

Spec == Init /\ [][Next]_vars

\* the same program run on one family of ROMs
SpecAlu == InitWith(AluRoms) /\ [][Next]_vars
SpecSkip == InitWith(SkipRoms) /\ [][Next]_vars
SpecKey == InitWith(KeyRoms) /\ [][Next]_vars
SpecCall == InitWith(CallRoms) /\ [][Next]_vars
SpecInvalid == InitWith(InvalidRoms) /\ [][Next]_vars
SpecPlain == InitWith(PlainRoms) /\ [][Next]_vars
SpecDraw == InitWith(DrawRoms) /\ [][Next]_vars
SpecStore == InitWith(StoreRoms) /\ [][Next]_vars
SpecFont == InitWith(FontRoms) /\ [][Next]_vars
SpecBcd == InitWith(BcdRoms) /\ [][Next]_vars
SpecClear == InitWith(ClearRoms) /\ [][Next]_vars
SpecStack == InitWith(StackRoms) /\ [][Next]_vars
SpecJump == InitWith(JumpRoms) /\ [][Next]_vars
SpecOob == InitWith(OobRoms) /\ [][Next]_vars
SpecTimer == InitWith(TimerRoms) /\ [][Next]_vars
\* the while loop of main goes on iterating as long as its condition holds
SpecTimerLive ==
    InitWith(TimerRoms) /\ [][Next]_vars /\ WF_vars(LoopIteration)
SpecDecode == InitWith(DecodeRoms) /\ [][Next]_vars
SpecFlag == InitWith(FlagRoms) /\ [][Next]_vars


\* ================================================================ claims
\* The fields of an opcode as the specification's semantics table names
\* them, by plain arithmetic.
TopNibble(op) == op \div 4096
FieldX(op) == (op \div 256) % 16
FieldY(op) == (op \div 16) % 16
FieldN(op) == op % 16
FieldNN(op) == op % 256
FieldNNN(op) == op % 4096

IsJump(op) == TopNibble(op) = 1 \/ TopNibble(op) = 11
IsCall(op) == TopNibble(op) = 2
IsReturn(op) == op = \h00EE
IsRegSkip(op) ==
    \/ TopNibble(op) \in {3, 4}
    \/ TopNibble(op) \in {5, 9} /\ FieldN(op) = 0
IsEX9E(op) == TopNibble(op) = 14 /\ FieldNN(op) = \h9E
IsEXA1(op) == TopNibble(op) = 14 /\ FieldNN(op) = \hA1
IsSkip(op) == IsRegSkip(op) \/ IsEX9E(op) \/ IsEXA1(op)
IsFX0A(op) == TopNibble(op) = 15 /\ FieldNN(op) = \h0A

\* the patterns of the semantics table
IsTableOp(op) ==
    \/ op = \h00E0
    \/ IsReturn(op)
    \/ IsJump(op)
    \/ IsCall(op)
    \/ IsSkip(op)
    \/ TopNibble(op) \in {6, 7, 10, 12, 13}
    \/ TopNibble(op) = 8 /\ FieldN(op) \in {0, 1, 2, 3, 4, 5, 6, 7, 14}
    \/ TopNibble(op) = 15
       /\ FieldNN(op) \in {\h07, \h0A, \h15, \h18, \h1E, \h29, \h33, \h55, \h65}

\* an instruction of the table that is no jump, call, return or skip
IsPlainOp(op) ==
    IsTableOp(op) /\ ~IsJump(op) /\ ~IsCall(op) /\ ~IsReturn(op) /\ ~IsSkip(op)

AnyKeyPressed == \E i \in 0..(NUM_KEYS - 1) : keys[i] # 0

\* this transition is an iteration of the run loop whose step completed;
\* instruction' is the opcode it executed
StepDone ==
    /\ phase = "running"
    /\ phase' = "running"
    /\ time_to_runloop' # time_to_runloop

\* this transition is an iteration of the run loop that fetched an opcode,
\* whether its step completed or panicked
StepTried ==
    /\ phase = "running"
    /\ phase' = "panicked" \/ time_to_runloop' # time_to_runloop
    /\ fetch_pc' + 1 < RAM_SIZE

\* C1: a step on an instruction that is no jump, call, return or skip
\* (for FX0A: with a key pressed) leaves reg_pc two above its old value.
C1_PlainStepAdvancesPcBy2 ==
    [][(StepDone /\ IsPlainOp(instruction')
        /\ (IsFX0A(instruction') => AnyKeyPressed))
       => reg_pc' = reg_pc + 2]_vars

\* C2: a return that matches a call executed at p in 0x200..0xFFE resumes
\* at p + 2.
C2_ReturnResumesAfterCall ==
    [][(StepDone /\ IsReturn(instruction') /\ call_sites # <<>>
        /\ call_sites[Len(call_sites)] \in \h200..\hFFE)
       => reg_pc' = call_sites[Len(call_sites)] + 2]_vars

\* C3: a step on an opcode that matches no pattern of the semantics table
\* advances reg_pc by exactly 2.
C3_UnrecognizedAdvancesPcBy2 ==
    [][(StepDone /\ ~IsTableOp(instruction')) => reg_pc' = reg_pc + 2]_vars

\* the condition of a register skip, on the registers before the step
RegSkipCond(op) ==
    CASE TopNibble(op) = 3 -> reg_gpr[FieldX(op)] = FieldNN(op)
      [] TopNibble(op) = 4 -> reg_gpr[FieldX(op)] # FieldNN(op)
      [] TopNibble(op) = 5 -> reg_gpr[FieldX(op)] = reg_gpr[FieldY(op)]
      [] TopNibble(op) = 9 -> reg_gpr[FieldX(op)] # reg_gpr[FieldY(op)]

\* C4: a step on 3XNN, 4XNN, 5XY0 or 9XY0 advances reg_pc by 4 exactly when
\* the instruction's condition holds and by 2 otherwise, and changes no
\* register.
C4_RegSkips ==
    [][(StepTried /\ IsRegSkip(instruction'))
       => /\ phase' = "running"
          /\ reg_pc' = reg_pc + (IF RegSkipCond(instruction') THEN 4 ELSE 2)
          /\ reg_gpr' = reg_gpr]_vars

\* C4 witness: a 4XNN whose register differs from NN has skipped.
C4_Witness ==
    /\ phase = "running"
    /\ TopNibble(instruction) = 4
    /\ reg_gpr[FieldX(instruction)] # FieldNN(instruction)
    /\ reg_pc = fetch_pc + 4
    /\ fetch_pc >= PROGRAM_START_ADDR

\* C5: with VX in 0..15, EX9E advances reg_pc by 4 when key VX is pressed
\* and by 2 when it is not, and EXA1 the other way round, in either copy of
\* the interpreter.
C5_KeySkips ==
    [][(StepTried /\ (IsEX9E(instruction') \/ IsEXA1(instruction'))
        /\ reg_gpr[FieldX(instruction')] \in 0..15)
       => /\ phase' = "running"
          /\ reg_pc' = reg_pc +
               (IF (keys[reg_gpr[FieldX(instruction')]] # 0)
                   = IsEX9E(instruction')
                THEN 4 ELSE 2)]_vars


\* C6: a step on FX0A with no key pressed leaves reg_pc and every register
\* as they were, so the same FX0A is fetched again; a step on FX0A with a
\* key pressed sets VX to the index of a pressed key and advances reg_pc
\* by 2.
C6_KeyWait ==
    [][(StepTried /\ IsFX0A(instruction'))
       => /\ phase' = "running"
          /\ IF ~AnyKeyPressed
             THEN /\ reg_pc' = reg_pc
                  /\ reg_gpr' = reg_gpr
                  /\ CellAt(memory', reg_pc') * 256 + CellAt(memory', reg_pc' + 1)
                       = instruction'
             ELSE /\ reg_pc' = reg_pc + 2
                  /\ reg_gpr'[FieldX(instruction')] \in 0..(NUM_KEYS - 1)
                  /\ keys[reg_gpr'[FieldX(instruction')]] # 0]_vars

\* C6 witness: an FX0A has stored the index of a pressed key and moved on.
C6_Witness ==
    /\ phase = "running"
    /\ IsFX0A(instruction)
    /\ reg_pc = fetch_pc + 2
    /\ reg_gpr[FieldX(instruction)] \in 0..(NUM_KEYS - 1)
    /\ keys[reg_gpr[FieldX(instruction)]] # 0

\* the keypad that shows exactly the keys the window reports as held
KeypadOf(held) ==
    [i \in 0..(NUM_KEYS - 1) |-> IF i \in HexKeys(held) THEN 1 ELSE 0]

\* C7: the iteration of the run loop that makes a cadence tick leaves the
\* keypad equal to what the input source reports.
C7_KeypadRefreshedEachTick ==
    [][(StepDone /\ time_to_runloop = 0) => keys' = KeypadOf(window_keys)]_vars

\* C8: 8XY4 with X other than F never faults, leaves VX = (VX + VY) mod 256
\* and VF = 1 if the sum exceeds 255, else 0.
C8_AddWithCarry ==
    [][(StepTried /\ TopNibble(instruction') = 8 /\ FieldN(instruction') = 4
        /\ FieldX(instruction') # 15)
       => LET vx == reg_gpr[FieldX(instruction')]
              vy == reg_gpr[FieldY(instruction')]
          IN  /\ phase' = "running"
              /\ reg_gpr'[FieldX(instruction')] = (vx + vy) % 256
              /\ reg_gpr'[15] = IF vx + vy > 255 THEN 1 ELSE 0]_vars

\* C9: 8XY5 with X other than F leaves VX = (VX - VY) mod 256, wrapping
\* when VY > VX, and VF = 1 if VX > VY before the step, else 0.
C9_SubWithBorrow ==
    [][(StepTried /\ TopNibble(instruction') = 8 /\ FieldN(instruction') = 5
        /\ FieldX(instruction') # 15)
       => LET vx == reg_gpr[FieldX(instruction')]
              vy == reg_gpr[FieldY(instruction')]
          IN  /\ phase' = "running"
              /\ reg_gpr'[FieldX(instruction')] = (vx - vy) % 256
              /\ reg_gpr'[15] = IF vx > vy THEN 1 ELSE 0]_vars

\* the display cells under the set bits of the sprite of DXYN op: bit 7 - c
\* of memory[I + r] for the rows r < N and the columns c < 8
SpriteCells(op) ==
    {((reg_gpr[FieldX(op)] + c) % 64) + 64 * ((reg_gpr[FieldY(op)] + r) % 32) :
        <<r, c>> \in {rc \in (0..(FieldN(op) - 1)) \X (0..7) :
            (CellAt(memory, reg_i + rc[1]) \div Pow2(7 - rc[2])) % 2 = 1}}

C11_DrawTwiceRestores ==
    [][(StepDone /\ TopNibble(instruction') = 13 /\ instruction = instruction'
        /\ before.reg_i = reg_i
        /\ before.reg_gpr[FieldX(instruction')] = reg_gpr[FieldX(instruction')]
        /\ before.reg_gpr[FieldY(instruction')] = reg_gpr[FieldY(instruction')]
        /\ \A r \in 0..(FieldN(instruction') - 1) :
               CellAt(before.memory, reg_i + r) = CellAt(memory, reg_i + r))
       => /\ \A at \in 0..(GFX_SIZE - 1) :
                 CellAt(gfx', at) = CellAt(before.gfx, at)
          /\ (/\ DOMAIN before.gfx = {}
              /\ FieldN(instruction') = 1
              /\ CellAt(memory, reg_i) # 0)
             => (reg_gpr[15] = 0 /\ reg_gpr'[15] = 1)]_vars

\* C11 witness: the second draw of a one-row sprite has cleared the display
\* again and set VF.
C11_Witness ==
    /\ phase = "running"
    /\ TopNibble(instruction) = 13
    /\ FieldN(instruction) = 1
    /\ reg_pc = fetch_pc + 2
    /\ DOMAIN before.gfx # {}
    /\ DOMAIN gfx = {}
    /\ reg_gpr[15] = 1

\* C12: an FX65 with the X and the I of an earlier FX55, while the memory
\* cells I..I+X still hold what the FX55 stored, sets every register V0..VX
\* to the value it had at the store.
C12_StoreLoadRoundTrip ==
    [][(/\ StepTried
        /\ TopNibble(instruction') = 15 /\ FieldNN(instruction') = \h65
        /\ stored # <<>>
        /\ stored[1].x = FieldX(instruction')
        /\ stored[1].reg_i = reg_i
        /\ \A r \in 0..stored[1].x :
               CellAt(memory, reg_i + r) = stored[1].reg_gpr[r])
       => /\ phase' = "running"
          /\ \A r \in 0..FieldX(instruction') :
                 reg_gpr'[r] = stored[1].reg_gpr[r]]_vars

\* C13: 8XYE with X other than F sets VF to bit 7 of VX as it was before
\* the step and VX to (VX * 2) mod 256.
C13_ShiftLeft ==
    [][(StepTried /\ TopNibble(instruction') = 8 /\ FieldN(instruction') = 14
        /\ FieldX(instruction') # 15)
       => LET vx == reg_gpr[FieldX(instruction')]
          IN  /\ phase' = "running"
              /\ reg_gpr'[15] = vx \div 128
              /\ reg_gpr'[FieldX(instruction')] = (vx * 2) % 256]_vars

\* C14: 8XY7 (X and Y other than F) sets VF to 1 if VY > VX, else 0, and VY
\* to (VY - VX) mod 256, wrapping when VX > VY, and leaves VX unchanged.
C14_ReverseSub ==
    [][(StepTried /\ TopNibble(instruction') = 8 /\ FieldN(instruction') = 7
        /\ FieldX(instruction') # 15 /\ FieldY(instruction') # 15
        /\ FieldX(instruction') # FieldY(instruction'))
       => LET vx == reg_gpr[FieldX(instruction')]
              vy == reg_gpr[FieldY(instruction')]
          IN  /\ phase' = "running"
              /\ reg_gpr'[15] = IF vy > vx THEN 1 ELSE 0
              /\ reg_gpr'[FieldY(instruction')] = (vy - vx) % 256
              /\ reg_gpr'[FieldX(instruction')] = vx]_vars

\* C15: FX29 with VX in 0..15 sets I to VX * 5, where Ram::new put the
\* sprite of the digit VX, whatever the display holds.
C15_FontAddress ==
    [][(StepTried /\ TopNibble(instruction') = 15
        /\ FieldNN(instruction') = \h29
        /\ reg_gpr[FieldX(instruction')] \in 0..15)
       => LET vx == reg_gpr[FieldX(instruction')]
          IN  /\ phase' = "running"
              /\ reg_i' = vx * 5
              /\ \A r \in 0..4 :
                     CellAt(memory', reg_i' + r) = Sprites[vx + 1][r + 1]]_vars

\* C16: FX33 with I <= 4093 leaves the hundreds, tens and ones digit of VX
\* in memory[I], memory[I+1] and memory[I+2], and changes no other memory
\* cell and no register.  (A cell outside DOMAIN memory and DOMAIN memory'
\* is 0 before and after.)
C16_Bcd ==
    [][(StepTried /\ TopNibble(instruction') = 15
        /\ FieldNN(instruction') = \h33 /\ reg_i <= 4093)
       => LET vx == reg_gpr[FieldX(instruction')]
              hundreds == CellAt(memory', reg_i)
              tens == CellAt(memory', reg_i + 1)
              ones == CellAt(memory', reg_i + 2)
          IN  /\ phase' = "running"
              /\ (100 * hundreds) + (10 * tens) + ones = vx
              /\ {hundreds, tens, ones} \subseteq 0..9
              /\ \A a \in (DOMAIN memory \cup DOMAIN memory')
                             \ {reg_i, reg_i + 1, reg_i + 2} :
                     CellAt(memory', a) = CellAt(memory, a)
              /\ DOMAIN memory' \subseteq 0..(RAM_SIZE - 1)
              /\ reg_gpr' = reg_gpr
              /\ reg_i' = reg_i
              /\ sp' = sp
              /\ stack' = stack]_vars

\* C16 witness: FX33 has written the digits 1, 5, 6 of VX = 156 at the last
\* three cells of the memory.
C16_Witness ==
    /\ phase = "running"
    /\ TopNibble(instruction) = 15
    /\ FieldNN(instruction) = \h33
    /\ reg_pc = fetch_pc + 2
    /\ reg_gpr[FieldX(instruction)] = 156
    /\ reg_i = 4093
    /\ CellAt(memory, 4093) = 1
    /\ CellAt(memory, 4094) = 5
    /\ CellAt(memory, 4095) = 6

\* a timer after an iteration of the run loop whose instruction left it
\* alone: decremented by the cadence tick if the iteration made one
TimerLeftAlone(timer) ==
    IF time_to_runloop = 0 /\ timer > 0 THEN timer - 1 ELSE timer

\* C17: a step on 00E0 leaves every display cell off and reg_pc two above
\* its old value, and changes no register, no timer and no memory cell.
C17_ClearScreen ==
    [][(StepTried /\ instruction' = \h00E0)
       => /\ phase' = "running"
          /\ \A at \in 0..(GFX_SIZE - 1) : CellAt(gfx', at) = PX_OFF
          /\ reg_pc' = reg_pc + 2
          /\ reg_gpr' = reg_gpr
          /\ reg_i' = reg_i
          /\ sp' = sp
          /\ stack' = stack
          /\ reg_dt' = TimerLeftAlone(reg_dt)
          /\ reg_st' = TimerLeftAlone(reg_st)
          /\ memory' = memory]_vars

\* C17 witness: 00E0 has cleared a display that showed a sprite, with the
\* delay timer running.
C17_Witness ==
    /\ phase = "running"
    /\ instruction = \h00E0
    /\ reg_pc = fetch_pc + 2
    /\ DOMAIN before.gfx # {}
    /\ DOMAIN gfx = {}
    /\ reg_dt > 0

\* C18: a 00EE with sp = 0 and a 2NNN with sp = 16 end the process (a
\* panic) with sp as it was, and nothing happens after a panic.
C18_StackFaults ==
    [][/\ (StepTried
           /\ \/ IsReturn(instruction') /\ sp = 0
              \/ IsCall(instruction') /\ sp = STACK_SIZE)
          => (phase' = "panicked" /\ sp' = sp /\ reg_pc' = reg_pc)
       /\ phase # "panicked"]_vars

\* C18 witness: the seventeenth nested call has ended the process.
C18_Witness ==
    /\ phase = "panicked"
    /\ IsCall(instruction)
    /\ sp = STACK_SIZE

\* C19: sp is between 0 and 16.
C19_SpInRange == sp \in 0..STACK_SIZE

\* C19 witness: sixteen calls are pending.
C19_Witness ==
    /\ phase = "running"
    /\ sp = STACK_SIZE
    /\ Len(call_sites) = STACK_SIZE

\* C20: reg_pc is even at every instruction fetch.
C20_PcEven == [][StepTried => reg_pc % 2 = 0]_vars

\* this transition is an iteration of the run loop, whatever became of it
LoopStep ==
    /\ phase = "running"
    /\ phase' = "panicked" \/ time_to_runloop' # time_to_runloop

\* the memory addresses the step on op reads or writes after the fetch: the
\* sprite rows of DXYN, the three digits of FX33, the registers FX55 stores
\* (V0..VX in cpu.rs, V0 up to the first register equal to VX in main.rs)
\* and the bytes FX65 reads at I (cpu.rs only)
DataAddrs(op) ==
    CASE TopNibble(op) = 13 -> reg_i..(reg_i + FieldN(op) - 1)
      [] TopNibble(op) = 15 /\ FieldNN(op) = \h33 -> reg_i..(reg_i + 2)
      [] TopNibble(op) = 15 /\ FieldNN(op) = \h55 ->
             reg_i..(reg_i + StoreLast(Machine, op))
      [] TopNibble(op) = 15 /\ FieldNN(op) = \h65 /\ build = "cpu.rs" ->
             reg_i..(reg_i + FieldX(op))
      [] OTHER -> {}

\* C21: an iteration of the run loop whose fetch (at reg_pc and reg_pc + 1)
\* or whose instruction accesses an address of 4096 or more ends the
\* process, with the memory, the registers and the display as they were;
\* the memory has no cell at 4096 or beyond.
C21_OutOfBoundsIsFatal ==
    [][/\ LoopStep =>
           LET op == (CellAt(memory, reg_pc) * 256) + CellAt(memory, reg_pc + 1)
               addrs == IF reg_pc + 1 >= RAM_SIZE THEN {reg_pc, reg_pc + 1}
                        ELSE {reg_pc, reg_pc + 1} \cup DataAddrs(op)
           IN  (\E a \in addrs : a >= RAM_SIZE)
               => /\ phase' = "panicked"
                  /\ memory' = memory
                  /\ reg_gpr' = reg_gpr
                  /\ gfx' = gfx
       /\ DOMAIN memory' \subseteq 0..(RAM_SIZE - 1)]_vars

\* C21 witness: a step that started with reg_pc = 4096 has ended the
\* process.
C21_Witness ==
    /\ phase = "panicked"
    /\ reg_pc = RAM_SIZE
    /\ fetch_pc = RAM_SIZE

\* a timer after the instruction op: VX if op is the FX15 or FX18 (nn) that
\* sets it, else as it was
TimerAfterOp(timer, op, nn) ==
    IF TopNibble(op) = 15 /\ FieldNN(op) = nn THEN reg_gpr[FieldX(op)]
    ELSE timer

\* C22: the iteration with time_to_runloop = 0 makes the tick and the
\* TIMER_DEFAULT iterations after it make none, so that every ninth step
\* ticks; a timer changes only by FX15/FX18 and at a tick, where a nonzero
\* timer goes down by 1 and a timer that is 0 stays 0.
C22_TimerCadence ==
    [][IF StepDone
       THEN LET tick == time_to_runloop = 0
                dt == TimerAfterOp(reg_dt, instruction', \h15)
                st == TimerAfterOp(reg_st, instruction', \h18)
            IN  /\ time_to_runloop \in 0..TIMER_DEFAULT
                /\ time_to_runloop' = IF tick THEN TIMER_DEFAULT
                                      ELSE time_to_runloop - 1
                /\ reg_dt' = IF tick /\ dt > 0 THEN dt - 1 ELSE dt
                /\ reg_st' = IF tick /\ st > 0 THEN st - 1 ELSE st
       ELSE /\ reg_dt' = reg_dt
            /\ reg_st' = reg_st
            /\ time_to_runloop' = time_to_runloop]_vars

\* C22 witness: the first tick has taken both timers from 2 to 1, and a
\* later one has left a timer at 0.
C22_Witness ==
    /\ phase = "running"
    /\ time_to_runloop = TIMER_DEFAULT
    /\ reg_gpr[12] = 2
    /\ instruction = \h1206
    /\ reg_dt = 1
    /\ reg_st = 1

\* the glyphs of the hexadecimal digits 0..F, four pixels wide and five
\* high: each row written as four decimal digits, 1 for a pixel that is on
Glyphs ==
    <<<<1111, 1001, 1001, 1001, 1111>>,
      <<0010, 0110, 0010, 0010, 0111>>,
      <<1111, 0001, 1111, 1000, 1111>>,
      <<1111, 0001, 1111, 0001, 1111>>,
      <<1001, 1001, 1111, 0001, 0001>>,
      <<1111, 1000, 1111, 0001, 1111>>,
      <<1111, 1000, 1111, 1001, 1111>>,
      <<1111, 0001, 0010, 0100, 0100>>,
      <<1111, 1001, 1111, 1001, 1111>>,
      <<1111, 1001, 1111, 0001, 1111>>,
      <<1111, 1001, 1111, 1001, 1001>>,
      <<1110, 1001, 1110, 1001, 1110>>,
      <<1111, 1000, 1000, 1000, 1111>>,
      <<1110, 1001, 1001, 1001, 1110>>,
      <<1111, 1000, 1111, 1000, 1111>>,
      <<1111, 1000, 1111, 1000, 1000>>>>

\* the sprite byte of a glyph row: its four pixels in the bits 7..4
GlyphByte(row) ==
    (128 * (row \div 1000)) + (64 * ((row \div 100) % 10))
    + (32 * ((row \div 10) % 10)) + (16 * (row % 10))

\* C23: before the ROM is loaded all registers, I, sp, both timers and all
\* keys are 0, reg_pc is 0x200, every display cell is off, the memory holds
\* the glyph of the digit d at 5 * d .. 5 * d + 4 and 0 everywhere else.
C23_InitialState ==
    phase = "new"
    => /\ \A r \in 0..15 : reg_gpr[r] = 0
       /\ DOMAIN reg_gpr = 0..15
       /\ reg_i = 0
       /\ sp = 0
       /\ reg_dt = 0
       /\ reg_st = 0
       /\ \A k \in 0..15 : keys[k] = 0
       /\ reg_pc = \h200
       /\ \A at \in 0..2047 : CellAt(gfx, at) = 0
       /\ \A d \in 0..15 : \A r \in 0..4 :
              CellAt(memory, (5 * d) + r) = GlyphByte(Glyphs[d + 1][r + 1])
       /\ \A a \in 80..4095 : CellAt(memory, a) = 0
       /\ DOMAIN memory \subseteq 0..4095

\* C23 witness: the machine as constructed, the last byte of the glyph of F
\* in its place.
C23_Witness ==
    /\ phase = "new"
    /\ reg_pc = PROGRAM_START_ADDR
    /\ CellAt(memory, 79) = \h80

\* C24: a step on an opcode that matches no pattern of the semantics table
\* changes no register, no timer, no memory cell and no display cell, and
\* does not pop the stack.
C24_ExactDecoding ==
    [][(StepTried /\ ~IsTableOp(instruction'))
       => /\ phase' = "running"
          /\ reg_gpr' = reg_gpr
          /\ reg_i' = reg_i
          /\ sp' = sp
          /\ stack' = stack
          /\ reg_dt' = TimerLeftAlone(reg_dt)
          /\ reg_st' = TimerLeftAlone(reg_st)
          /\ memory' = memory
          /\ gfx' = gfx]_vars

\* the flag the semantics table defines for the 8XYk instruction op, on
\* the registers before the step
FlagOf(op) ==
    LET vx == reg_gpr[FieldX(op)]
        vy == reg_gpr[FieldY(op)]
    IN  CASE FieldN(op) = 4 -> IF vx + vy > 255 THEN 1 ELSE 0
          [] FieldN(op) = 5 -> IF vx > vy THEN 1 ELSE 0
          [] FieldN(op) = 6 -> vx % 2
          [] FieldN(op) = 7 -> IF vy > vx THEN 1 ELSE 0
          [] FieldN(op) = 14 -> vx \div 128

\* C25: after 8XY4, 8XY5, 8XY6, 8XY7 and 8XYE VF holds the instruction's
\* flag, also when the register the result goes to is VF.
C25_FlagSurvivesStore ==
    [][(StepTried /\ TopNibble(instruction') = 8
        /\ FieldN(instruction') \in {4, 5, 6, 7, 14})
       => /\ phase' = "running"
          /\ reg_gpr'[15] = FlagOf(instruction')]_vars

\* the indices of the keys that are pressed
PressedKeys == {i \in 0..(NUM_KEYS - 1) : keys[i] # 0}

\* C26: a step on FX0A with two or more keys pressed sets VX to the lowest
\* index of a pressed key and writes no other register.
C26_LowestKey ==
    [][(StepTried /\ IsFX0A(instruction') /\ Cardinality(PressedKeys) >= 2)
       => /\ phase' = "running"
          /\ reg_gpr'[FieldX(instruction')] \in PressedKeys
          /\ \A i \in PressedKeys : reg_gpr'[FieldX(instruction')] <= i
          /\ \A r \in 0..(NUM_GPR - 1) :
                 r # FieldX(instruction') => reg_gpr'[r] = reg_gpr[r]
          /\ reg_i' = reg_i]_vars

\* C26 witness: FX0A has stored 2 with the keys 2 and F pressed.
C26_Witness ==
    /\ phase = "running"
    /\ IsFX0A(instruction)
    /\ reg_pc = fetch_pc + 2
    /\ PressedKeys = {2, 15}
    /\ reg_gpr[FieldX(instruction)] = 2

\* C27: every display cell holds PX_OFF or PX_ON.  (gfx keeps the cells
\* that are not 0; every cell outside DOMAIN gfx holds PX_OFF.)
C27_TwoPixelValues ==
    /\ DOMAIN gfx \subseteq 0..(GFX_SIZE - 1)
    /\ \A at \in DOMAIN gfx : gfx[at] \in {PX_OFF, PX_ON}

\* C27 witness: a draw over a sprite has turned pixels off and left others
\* on.
C27_Witness ==
    /\ phase = "running"
    /\ TopNibble(instruction) = 13
    /\ reg_pc = fetch_pc + 2
    /\ reg_gpr[15] = 1
    /\ \E at \in DOMAIN gfx : gfx[at] = PX_ON
    /\ \E at \in DOMAIN before.gfx : CellAt(gfx, at) = PX_OFF

\* the last step executed the FX15 or FX18 (nn) that sets a timer
SetsTimer(op, nn) == TopNibble(op) = 15 /\ FieldNN(op) = nn

\* C28: while the run loop iterates, a delay timer that is not 0 reaches 0
\* unless the program executes an FX15, and a sound timer unless it executes
\* an FX18, also while FX0A waits; a timer that is 0 stays 0 over every
\* step that is not the FX15 or FX18 that sets it.
C28_TimersRunOut ==
    /\ (phase = "running" /\ reg_dt > 0)
          ~> (reg_dt = 0 \/ phase # "running" \/ SetsTimer(instruction, \h15))
    /\ (phase = "running" /\ reg_st > 0)
          ~> (reg_st = 0 \/ phase # "running" \/ SetsTimer(instruction, \h18))
    /\ [][/\ (reg_dt = 0 /\ ~(StepDone /\ SetsTimer(instruction', \h15)))
              => reg_dt' = 0
          /\ (reg_st = 0 /\ ~(StepDone /\ SetsTimer(instruction', \h18)))
              => reg_st' = 0]_vars

\* C28 witness: both timers, set to 1, have run out while FX0A waits.
C28_Witness ==
    /\ phase = "running"
    /\ IsFX0A(instruction)
    /\ reg_pc = fetch_pc
    /\ reg_gpr[12] = 1
    /\ reg_dt = 0
    /\ reg_st = 0
    /\ time_to_runloop < TIMER_DEFAULT

====
